---- MODULE Spec2Model ----
(***************************************************************************)
(* Model of the ESC/POS command encoder of go-escpos (epson.go).           *)
(*                                                                         *)
(* A Go string is a sequence of bytes; it is modelled as a sequence of     *)
(* numbers in 0..255.  The Printer holds nothing but its connection, so a  *)
(* behaviour of Spec is one call made on a freshly constructed Printer:    *)
(* call is the call's name and arguments, env what the transport does      *)
(* during the call (which write attempts fail, what a read delivers), log  *)
(* the trace of what the call did to the transport and to the character    *)
(* converter, ret the error it returned and status the status it returned. *)
(*                                                                         *)
(* A behaviour of SpecLife is a sequence of calls on one Printer, with     *)
(* small arguments.  What lasts from call to call is on the far side of    *)
(* the connection: closed counts the Close calls the transport received,   *)
(* reg is the payload byte of the last 1C 21 frame the device received,    *)
(* and dh and dw remember the argument of the last SetDoubleHeight and     *)
(* SetDoubleWidth call that reached the device.                            *)
(***************************************************************************)
EXTENDS Integers, Sequences, FiniteSets

VARIABLES call, env, log, ret, status, closed, reg, dh, dw

vars == <<call, env, log, ret, status, closed, reg, dh, dw>>

(***************************************************************************)
(* Bounds of the model.                                                    *)
(***************************************************************************)
\* longest text, counted in characters of Alphabet
MaxChars == 2
\* a call makes at most this many write attempts whose outcome is chosen
MaxCallWrites == 5
\* 2D sizes are drawn from (0 - BelowSize) .. MaxSizeArg
BelowSize == 2
MaxSizeArg == 18
\* lengths of the long 2D payloads: LongLen + 3 needs the top bit of the low
\* length byte, WrapLen + 3 needs the high length byte
LongLen == 125
WrapLen == 253
\* Size(width, height) arguments are drawn from 0 .. MaxDim
MaxDim == 17
\* PrintAreaWidth arguments are drawn from 0 .. MaxWidth
MaxWidth == 1023
\* Feed arguments are drawn from 0 .. MaxFeed
MaxFeed == 300
\* in a life of the Printer a call has no failing write or one, among its
\* first MaxLifeFail writes
MaxLifeFail == 2
\* Close is called at most MaxClose times in a life of the Printer
MaxClose == 2

(***************************************************************************)
(* Bytes and strings.                                                      *)
(***************************************************************************)
Byte == 0..255

\* the string of n copies of byte b
Rep(b, n) == [i \in 1..n |-> b]

\* fmt's %c of an integer: the UTF-8 encoding of the rune; a value that is
\* no rune (negative, a surrogate, above U+10FFFF) prints as U+FFFD
FmtC(n) ==
    IF n < 0 \/ n > 1114111 \/ (n >= 55296 /\ n <= 57343) THEN <<239, 191, 189>>
    ELSE IF n < 128 THEN <<n>>
    ELSE IF n < 2048 THEN <<192 + (n \div 64), 128 + (n % 64)>>
    ELSE IF n < 65536
         THEN <<224 + (n \div 4096), 128 + ((n \div 64) % 64), 128 + (n % 64)>>
    ELSE <<240 + (n \div 262144), 128 + ((n \div 4096) % 64),
           128 + ((n \div 64) % 64), 128 + (n % 64)>>

\* fmt's %v of a non-negative int: its decimal digits in ASCII
RECURSIVE FmtV(_)
FmtV(n) == IF n < 10 THEN <<48 + n>> ELSE FmtV(n \div 10) \o <<48 + (n % 10)>>

(***************************************************************************)
(* The transport p.s and the trace of a call.                              *)
(*                                                                         *)
(* A call runs on a context c: c.log is the trace so far, c.fails the set  *)
(* of write attempts of this call (counted from 1) the transport fails,    *)
(* c.rd what a read delivers, c.err the error of the last step.            *)
(* A trace entry is [op, data, ok]: a write attempt with its bytes, a read *)
(* with the buffer it left, a converter call with its input, a             *)
(* substitution pass with its input.                                       *)
(***************************************************************************)
Ctx(fails, rd) ==
    [log |-> <<>>, fails |-> fails, rd |-> rd, err |-> "nil", status |-> 0,
     closeOk |-> TRUE]

NoRead == [ok |-> TRUE, n |-> 0, byte |-> 0]

Ev(op, data, ok) == [op |-> op, data |-> data, ok |-> ok]

Only(l, op) == SelectSeq(l, LAMBDA e : e.op = op)

\* io.Writer: the attempt is made; it fails when the transport says so
s_Write(c, data) ==
    LET k  == Len(Only(c.log, "write")) + 1
        ok == k \notin c.fails
    IN  [c EXCEPT !.log = Append(@, Ev("write", data, ok)),
                  !.err = IF ok THEN "nil" ELSE "ErrWrite"]

\* io.Reader on a buffer of one zero byte: c.rd.n bytes are stored, with or
\* without an error
s_Read(c) ==
    LET buf == IF c.rd.n = 1 THEN <<c.rd.byte>> ELSE <<0>>
    IN  [c EXCEPT !.log = Append(@, Ev("read", buf, c.rd.ok)),
                  !.err = IF c.rd.ok THEN "nil" ELSE "ErrRead"]

\* io.Closer: the transport receives the Close and answers with its error
s_Close(c) ==
    [c EXCEPT !.log = Append(@, Ev("close", <<>>, c.closeOk)),
              !.err = IF c.closeOk THEN "nil" ELSE "ErrClose"]

\* p.write(cmd): one transport write of the bytes of cmd, its error returned
write(c, cmd) == s_Write(c, cmd)

\* the device's mode register: no 1C 21 frame received yet
NoReg == 0 - 1

\* the register after the writes of a trace: the payload byte of the last
\* 1C 21 frame that was written
RegAfter(r, l) ==
    LET m == SelectSeq(l, LAMBDA e : /\ e.op = "write" /\ e.ok
                                     /\ Len(e.data) = 3
                                     /\ e.data[1] = 28 /\ e.data[2] = 33)
    IN  IF m = <<>> THEN r ELSE m[Len(m)].data[3]

OnOff(a) == IF a = 1 THEN "on" ELSE "off"

(***************************************************************************)
(* 2D symbologies.                                                         *)
(***************************************************************************)
twoDbar == <<29, 40, 107>>

QRType == <<49>>
PDF417Type == <<48>>
AztecType == <<53>>
DataMatrixType == <<54>>

clampSize_Mut(size) == IF size < 1 \/ size > 16 THEN 3 ELSE size

clampSize(size) == IF size < 2 \/ size > 16 THEN 3 ELSE size

setSize(c, codetype, size) ==
    write(c, twoDbar \o <<3, 0>> \o codetype \o <<67>> \o FmtC(size))

setECC_Mut(c, codetype) ==
    IF codetype # PDF417Type
    THEN write(c, twoDbar \o <<3, 0>> \o codetype \o <<69, 48, 10>>)
    ELSE c

setECC(c, codetype) ==
    IF codetype = QRType
    THEN write(c, twoDbar \o <<3, 0>> \o codetype \o <<69, 48, 10>>)
    ELSE c

storeData(c, codetype, code) ==
    LET codePL0 == Len(code) + 3
        codePH  == codePL0 \div 256
        codePL  == codePL0 % 256
    IN  write(c, twoDbar \o FmtC(codePL) \o FmtC(codePH) \o codetype
                 \o <<80, 48>> \o code)

printCode(c, codetype) ==
    write(c, twoDbar \o <<3, 0>> \o codetype \o <<81, 48, 10>>)

\* every write's error is dropped; the call returns nil
twodimensionBarcode(c, codetype, code, size) ==
    LET c1 == setSize(c, codetype, clampSize(size))
        c2 == setECC(c1, codetype)
        c3 == storeData(c2, codetype, code)
        c4 == printCode(c3, codetype)
    IN  [c4 EXCEPT !.err = "nil"]

(***************************************************************************)
(* Text printing.                                                          *)
(***************************************************************************)
\* the Latin-1 code points ISO8859-15 gives up for other characters
NotLatin9 == {164, 166, 168, 180, 184, 188, 189, 190}

\* converter.Encode: UTF-8 to ISO8859-15.  ASCII is kept, the two-byte
\* forms of U+0080..U+00FF become one byte, the euro sign becomes A4, and
\* anything else cannot be represented: [ok, out]
RECURSIVE Encode(_)
Encode(s) ==
    IF s = <<>> THEN [ok |-> TRUE, out |-> <<>>]
    ELSE IF s[1] < 128
         THEN LET r == Encode(Tail(s))
              IN  [ok |-> r.ok, out |-> <<s[1]>> \o r.out]
    ELSE IF s[1] \in {194, 195} /\ Len(s) >= 2 /\ s[2] \in 128..191
              /\ ((s[1] - 192) * 64 + (s[2] - 128)) \notin NotLatin9
         THEN LET r == Encode(SubSeq(s, 3, Len(s)))
              IN  [ok |-> r.ok,
                   out |-> <<(s[1] - 192) * 64 + (s[2] - 128)>> \o r.out]
    ELSE IF Len(s) >= 3 /\ SubSeq(s, 1, 3) = <<226, 130, 172>>
         THEN LET r == Encode(SubSeq(s, 4, Len(s)))
              IN  [ok |-> r.ok, out |-> <<164>> \o r.out]
    ELSE [ok |-> FALSE, out |-> <<>>]

\* the substitution pass: a fixed table applied to the converted bytes
textReplace(data) ==
    [i \in 1..Len(data) |-> IF data[i] = 164 THEN 213 ELSE data[i]]

convert(c, data) ==
    LET e == Encode(data)
    IN  [c EXCEPT !.log = Append(@, Ev("encode", data, e.ok)),
                  !.err = IF e.ok THEN "nil" ELSE "ErrEncode"]

substitute(c, b) == [c EXCEPT !.log = Append(@, Ev("replace", b, TRUE))]

emptyText_Mut(data) == FALSE

emptyText(data) == data = <<>>

afterConvert_Mut(c, data) ==
    write(substitute(c, data), textReplace(data))

afterConvert(c, data) ==
    IF c.err # "nil" THEN c
    ELSE LET b == Encode(data).out
         IN  write(substitute(c, b), textReplace(b))

PrintText(c, data) ==
    IF emptyText(data) THEN [c EXCEPT !.err = "nil"]
    ELSE afterConvert(convert(c, data), data)

PrintLn_Mut(c, data) == write(PrintText(c, data), <<10>>)

PrintLn(c, data) ==
    LET c1 == PrintText(c, data)
    IN  IF c1.err # "nil" THEN c1 ELSE write(c1, <<10>>)

(***************************************************************************)
(* 1D barcodes.                                                            *)
(***************************************************************************)
NullTerminated == {"UPCA", "UPCE", "EAN13", "EAN8", "CODE39", "ITF", "CODABAR"}

BarcodeTypes == NullTerminated \cup {"CODE128"}

\* the string value of a BarcodeType
BarcodeTypeString(format) ==
    CASE format = "UPCA"    -> <<0>>
      [] format = "UPCE"    -> <<1>>
      [] format = "EAN13"   -> <<2>>
      [] format = "EAN8"    -> <<3>>
      [] format = "CODE39"  -> <<4>>
      [] format = "ITF"     -> <<5>>
      [] format = "CODABAR" -> <<6>>
      [] format = "CODE128" -> <<73>>
      [] OTHER              -> <<8>>

barcodeFrame_Mut(c, barcode, format) ==
    IF format = "CODE128"
    THEN write(c, <<29, 107>> \o BarcodeTypeString(format)
                  \o FmtV(Len(barcode)) \o barcode \o <<0>>)
    ELSE write(c, <<29, 107>> \o BarcodeTypeString(format) \o barcode \o <<0>>)

barcodeFrame(c, barcode, format) ==
    IF format \in NullTerminated
    THEN write(c, <<29, 107>> \o BarcodeTypeString(format) \o barcode \o <<0>>)
    ELSE IF format = "CODE128"
    THEN write(c, <<29, 107>> \o BarcodeTypeString(format)
                  \o FmtV(Len(barcode)) \o barcode \o <<0>>)
    ELSE [c EXCEPT !.err = "panic"]

Barcode_Mut(c, barcode, format) ==
    LET c1 == write(c, <<29, 119, 4, 29, 104, 100>>)
        c2 == write(c1, <<29, 102, 0>>)
        c3 == barcodeFrame(c2, barcode, format)
    IN  IF c1.err # "nil" THEN c1
        ELSE IF c3.err # "nil" THEN c3
        ELSE PrintLn(c3, barcode)

Barcode(c, barcode, format) ==
    LET c1 == write(c, <<29, 119, 4, 29, 104, 100>>)
        c2 == write(c1, <<29, 102, 0>>)
        c3 == barcodeFrame(c2, barcode, format)
    IN  IF c1.err # "nil" THEN c1
        ELSE IF c2.err # "nil" THEN c2
        ELSE IF c3.err # "nil" THEN c3
        ELSE PrintLn(c3, barcode)

(***************************************************************************)
(* Formatting directives.                                                  *)
(***************************************************************************)
RECURSIVE BitOr(_, _)
BitOr(x, y) ==
    IF x = 0 THEN y
    ELSE IF y = 0 THEN x
    ELSE (IF x % 2 = 1 \/ y % 2 = 1 THEN 1 ELSE 0) + 2 * BitOr(x \div 2, y \div 2)

\* uint8 arithmetic: ((width-1)<<4)|(height-1)
packSize(width, height) ==
    BitOr((((width - 1) % 256) * 16) % 256, (height - 1) % 256)

Size(c, width, height) == write(c, <<29, 33>> \o FmtC(packSize(width, height)))

PrintAreaWidth(c, width) ==
    LET nh == IF width < 256 THEN 0 ELSE (width \div 256) % 256
        nl == IF width < 256 THEN width % 256 ELSE (width % 256) % 256
    IN  write(c, <<29, 87>> \o FmtC(nl) \o FmtC(nh))

(***************************************************************************)
(* Job control and the remaining directives.                               *)
(***************************************************************************)
InitPrinter_Mut(c) ==
    LET c1 == write(c, <<27, 64>>)
    IN  write(c1, <<27, 116>> \o FmtC(40))

\* Printer.Init
InitPrinter(c) ==
    LET c1 == write(c, <<27, 64>>)
    IN  IF c1.err # "nil" THEN c1 ELSE write(c1, <<27, 116>> \o FmtC(40))

End_Mut(c) == s_Close(write(c, <<250>>))

End(c) == write(c, <<250>>)

Close(c) == s_Close(c)

Cut(c) == write(c, <<29, 86, 65, 48>>)

Feed(c, n) == write(c, <<27, 100>> \o FmtC(n))

Font(c, font) == write(c, <<27, 77>> \o FmtC(font))

Underline(c, enabled) ==
    IF enabled THEN write(c, <<27, 45>> \o FmtC(1))
    ELSE write(c, <<27, 45>> \o FmtC(0))

Smooth_Mut(c, enabled) ==
    IF enabled THEN write(c, <<29, 98>> \o FmtC(0))
    ELSE write(c, <<29, 98>> \o FmtC(1))

Smooth(c, enabled) ==
    IF enabled THEN write(c, <<29, 98>> \o FmtC(1))
    ELSE write(c, <<29, 98>> \o FmtC(0))

Align(c, align) == write(c, <<27, 97>> \o FmtC(align))

\* the Printer is built on a ReadWriteCloser, p.f is nil: no write deadline
WriteBytes(c, data) == s_Write(c, data)

SetInit(c) == WriteBytes(c, <<27, 64>>)

SetCharacterSet(c, n) == WriteBytes(c, <<27, 82, n>>)

SetUnderline(c, underline) ==
    IF underline THEN WriteBytes(c, <<28, 45, 1>>)
    ELSE WriteBytes(c, <<28, 45, 0>>)

SetDoubleHeight(c, doubleHeight) ==
    IF doubleHeight THEN WriteBytes(c, <<28, 33, 8>>)
    ELSE WriteBytes(c, <<28, 33, 0>>)

SetDoubleWidth(c, doubleWidth) ==
    IF doubleWidth THEN WriteBytes(c, <<28, 33, 4>>)
    ELSE WriteBytes(c, <<28, 33, 0>>)

SetBold(c, bold) ==
    IF bold THEN WriteBytes(c, <<27, 69, 1>>)
    ELSE WriteBytes(c, <<27, 69, 0>>)

PrintLine(c) == WriteBytes(c, <<10>>)

(***************************************************************************)
(* Status query.                                                           *)
(***************************************************************************)
statusOf(c) == IF c.err # "nil" THEN 0 ELSE c.log[Len(c.log)].data[1]

readStatus_Mut(c) ==
    LET c2 == s_Read(c)
    IN  [c2 EXCEPT !.status = statusOf(c2)]

readStatus(c) ==
    IF c.err # "nil" THEN [c EXCEPT !.status = 0]
    ELSE LET c2 == s_Read(c)
         IN  [c2 EXCEPT !.status = statusOf(c2)]

GetErrorStatus_Mut(c) ==
    readStatus([s_Write(c, <<16, 4, 2>>) EXCEPT !.err = "nil"])

GetErrorStatus(c) == readStatus(s_Write(c, <<16, 4, 2>>))

(***************************************************************************)
(* Inputs.                                                                 *)
(***************************************************************************)
\* "A", e-acute, the euro sign, and a CJK character, in UTF-8
Alphabet == {<<65>>, <<195, 169>>, <<226, 130, 172>>, <<228, 184, 173>>}

RECURSIVE TextsUpTo(_)
TextsUpTo(n) ==
    IF n = 0 THEN {<<>>}
    ELSE LET shorter == TextsUpTo(n - 1)
         IN  shorter \cup {t \o a : t \in shorter, a \in Alphabet}

Texts == TextsUpTo(MaxChars)

Digits8 == <<49, 50, 51, 52, 53, 54, 55, 56>>

Codes == Texts \cup {Rep(65, LongLen), Rep(65, WrapLen)}

SizeArgs == (0 - BelowSize)..MaxSizeArg

FailSets == SUBSET (1..MaxCallWrites)

Reads ==
    {[ok |-> o, n |-> 1, byte |-> v] : o \in BOOLEAN, v \in Byte}
        \cup {[ok |-> o, n |-> 0, byte |-> 0] : o \in BOOLEAN}

Payloads == Texts \cup {Digits8}

Formats == BarcodeTypes \cup {"OTHER"}

Dims == 0..MaxDim

Widths == 0..MaxWidth

Feeds == 0..MaxFeed

Bit(b) == IF b THEN 1 ELSE 0

\* the call made: its name, its string argument, its integer arguments and
\* its barcode type
Call(name, str, a, b, t) ==
    [name |-> name, str |-> str, a |-> a, b |-> b, t |-> t]

TwoDNames == {"QR", "PDF417", "Aztec", "DataMatrix"}

(***************************************************************************)
(* The state machine.                                                      *)
(***************************************************************************)
Init ==
    /\ call = Call("new", <<>>, 0, 0, "")
    /\ env = [fails |-> {}, rd |-> NoRead]
    /\ log = <<>>
    /\ ret = "none"
    /\ status = 0
    /\ closed = 0
    /\ reg = NoReg
    /\ dh = "unset"
    /\ dw = "unset"

Fresh == call.name = "new"

Return(c, name, str, a, b, t) ==
    /\ call' = Call(name, str, a, b, t)
    /\ env' = [fails |-> c.fails, rd |-> c.rd]
    /\ log' = c.log
    /\ ret' = c.err
    /\ status' = c.status
    /\ closed' = closed + Len(Only(c.log, "close"))
    /\ reg' = RegAfter(reg, c.log)
    /\ dh' = IF name = "SetDoubleHeight" /\ c.err = "nil" THEN OnOff(a) ELSE dh
    /\ dw' = IF name = "SetDoubleWidth" /\ c.err = "nil" THEN OnOff(a) ELSE dw

QR ==
    /\ Fresh
    /\ \E code \in Codes, size \in SizeArgs, fails \in FailSets :
          Return(twodimensionBarcode(Ctx(fails, NoRead), QRType, code, size),
                 "QR", code, size, 0, "")

PDF417 ==
    /\ Fresh
    /\ \E code \in Codes, size \in SizeArgs, fails \in FailSets :
          Return(twodimensionBarcode(Ctx(fails, NoRead), PDF417Type, code, size),
                 "PDF417", code, size, 0, "")

Aztec ==
    /\ Fresh
    /\ \E code \in Codes, size \in SizeArgs, fails \in FailSets :
          Return(twodimensionBarcode(Ctx(fails, NoRead), AztecType, code, size),
                 "Aztec", code, size, 0, "")

DataMatrix ==
    /\ Fresh
    /\ \E code \in Codes, size \in SizeArgs, fails \in FailSets :
          Return(twodimensionBarcode(Ctx(fails, NoRead), DataMatrixType, code, size),
                 "DataMatrix", code, size, 0, "")

CallPrint ==
    /\ Fresh
    /\ \E data \in Texts, fails \in FailSets :
          Return(PrintText(Ctx(fails, NoRead), data), "Print", data, 0, 0, "")

CallPrintLn ==
    /\ Fresh
    /\ \E data \in Texts, fails \in FailSets :
          Return(PrintLn(Ctx(fails, NoRead), data), "PrintLn", data, 0, 0, "")

CallBarcode ==
    /\ Fresh
    /\ \E barcode \in Payloads, format \in Formats, fails \in FailSets :
          Return(Barcode(Ctx(fails, NoRead), barcode, format),
                 "Barcode", barcode, 0, 0, format)

CallSize ==
    /\ Fresh
    /\ \E width \in Dims, height \in Dims, fails \in FailSets :
          Return(Size(Ctx(fails, NoRead), width, height),
                 "Size", <<>>, width, height, "")

CallPrintAreaWidth ==
    /\ Fresh
    /\ \E width \in Widths, fails \in FailSets :
          Return(PrintAreaWidth(Ctx(fails, NoRead), width),
                 "PrintAreaWidth", <<>>, width, 0, "")

CallGetErrorStatus ==
    /\ Fresh
    /\ \E fails \in FailSets, rd \in Reads :
          Return(GetErrorStatus(Ctx(fails, rd)), "GetErrorStatus", <<>>, 0, 0, "")

CallFeed ==
    /\ Fresh
    /\ \E n \in Feeds, fails \in FailSets :
          Return(Feed(Ctx(fails, NoRead), n), "Feed", <<>>, n, 0, "")

CallSmooth ==
    /\ Fresh
    /\ \E enabled \in BOOLEAN, fails \in FailSets :
          Return(Smooth(Ctx(fails, NoRead), enabled),
                 "Smooth", <<>>, Bit(enabled), 0, "")

CallUnderline ==
    /\ Fresh
    /\ \E enabled \in BOOLEAN, fails \in FailSets :
          Return(Underline(Ctx(fails, NoRead), enabled),
                 "Underline", <<>>, Bit(enabled), 0, "")

CallInit ==
    /\ Fresh
    /\ \E fails \in FailSets :
          Return(InitPrinter(Ctx(fails, NoRead)), "Init", <<>>, 0, 0, "")

Next ==
    \/ QR
    \/ PDF417
    \/ Aztec
    \/ DataMatrix
    \/ CallPrint
    \/ CallPrintLn
    \/ CallBarcode
    \/ CallSize
    \/ CallPrintAreaWidth
    \/ CallGetErrorStatus
    \/ CallFeed
    \/ CallSmooth
    \/ CallUnderline
    \/ CallInit

Spec == Init /\ [][Next]_vars

(***************************************************************************)
(* The life of one Printer: any sequence of calls.  The Printer keeps no   *)
(* state of its own (src/epson.go:21-24 holds the transport only), so a    *)
(* call depends on the calls before it through the transport alone: once   *)
(* Close has reached the transport, every Write, Read and Close of it      *)
(* fails.                                                                  *)
(***************************************************************************)
LifeTexts == {<<>>, <<65>>, <<228, 184, 173>>}

LifeFails == {{}} \cup {{k} : k \in 1..MaxLifeFail}

LifeReads == {[ok |-> TRUE, n |-> 1, byte |-> 18], [ok |-> FALSE, n |-> 0, byte |-> 0]}

LifeSizes == {1, 3}

LifeFormats == {"EAN8", "CODE128", "OTHER"}

LifeFeeds == {1, 200}

Fonts == {0, 1}

Alignments == {0, 1, 2}

CharacterSets == {0, 15}

\* a panic is not recovered: no call follows it
Alive == ret # "panic"

LifeCtx(fails, rd, ok) ==
    IF closed > 0
    THEN [Ctx(1..MaxCallWrites, [ok |-> FALSE, n |-> 0, byte |-> 0])
             EXCEPT !.closeOk = FALSE]
    ELSE [Ctx(fails, rd) EXCEPT !.closeOk = ok]

WriteCtx(fails) == LifeCtx(fails, NoRead, TRUE)

\* the code type QR, PDF417, Aztec and DataMatrix hand to twodimensionBarcode
CodeType(name) ==
    CASE name = "QR"         -> QRType
      [] name = "PDF417"     -> PDF417Type
      [] name = "Aztec"      -> AztecType
      [] name = "DataMatrix" -> DataMatrixType

LifeTwoD ==
    /\ Alive
    /\ \E name \in TwoDNames, code \in LifeTexts, size \in LifeSizes,
          fails \in LifeFails :
          Return(twodimensionBarcode(WriteCtx(fails), CodeType(name),
                                     code, size),
                 name, code, size, 0, "")

LifePrint ==
    /\ Alive
    /\ \E data \in LifeTexts, fails \in LifeFails :
          Return(PrintText(WriteCtx(fails), data), "Print", data, 0, 0, "")

LifePrintLn ==
    /\ Alive
    /\ \E data \in LifeTexts, fails \in LifeFails :
          Return(PrintLn(WriteCtx(fails), data), "PrintLn", data, 0, 0, "")

LifeBarcode ==
    /\ Alive
    /\ \E barcode \in LifeTexts, format \in LifeFormats, fails \in LifeFails :
          Return(Barcode(WriteCtx(fails), barcode, format),
                 "Barcode", barcode, 0, 0, format)

LifeSize ==
    /\ Alive
    /\ \E width \in LifeSizes, height \in LifeSizes, fails \in LifeFails :
          Return(Size(WriteCtx(fails), width, height), "Size", <<>>,
                 width, height, "")

LifePrintAreaWidth ==
    /\ Alive
    /\ \E width \in LifeFeeds, fails \in LifeFails :
          Return(PrintAreaWidth(WriteCtx(fails), width), "PrintAreaWidth",
                 <<>>, width, 0, "")

LifeGetErrorStatus ==
    /\ Alive
    /\ \E fails \in LifeFails, rd \in LifeReads :
          Return(GetErrorStatus(LifeCtx(fails, rd, TRUE)), "GetErrorStatus",
                 <<>>, 0, 0, "")

LifeInit ==
    /\ Alive
    /\ \E fails \in LifeFails :
          Return(InitPrinter(WriteCtx(fails)), "Init", <<>>, 0, 0, "")

LifeEnd ==
    /\ Alive
    /\ \E fails \in LifeFails :
          Return(End(WriteCtx(fails)), "End", <<>>, 0, 0, "")

LifeClose ==
    /\ Alive
    /\ closed < MaxClose
    /\ \E ok \in BOOLEAN :
          Return(Close(LifeCtx({}, NoRead, ok)), "Close", <<>>, 0, 0, "")

LifeCut ==
    /\ Alive
    /\ \E fails \in LifeFails :
          Return(Cut(WriteCtx(fails)), "Cut", <<>>, 0, 0, "")

LifeFeed ==
    /\ Alive
    /\ \E n \in LifeFeeds, fails \in LifeFails :
          Return(Feed(WriteCtx(fails), n), "Feed", <<>>, n, 0, "")

LifeFont ==
    /\ Alive
    /\ \E font \in Fonts, fails \in LifeFails :
          Return(Font(WriteCtx(fails), font), "Font", <<>>, font, 0, "")

LifeUnderline ==
    /\ Alive
    /\ \E enabled \in BOOLEAN, fails \in LifeFails :
          Return(Underline(WriteCtx(fails), enabled), "Underline", <<>>,
                 Bit(enabled), 0, "")

LifeSmooth ==
    /\ Alive
    /\ \E enabled \in BOOLEAN, fails \in LifeFails :
          Return(Smooth(WriteCtx(fails), enabled), "Smooth", <<>>,
                 Bit(enabled), 0, "")

LifeAlign ==
    /\ Alive
    /\ \E align \in Alignments, fails \in LifeFails :
          Return(Align(WriteCtx(fails), align), "Align", <<>>, align, 0, "")

LifeWriteBytes ==
    /\ Alive
    /\ \E data \in LifeTexts, fails \in LifeFails :
          Return(WriteBytes(WriteCtx(fails), data), "WriteBytes", data, 0, 0, "")

LifeSetInit ==
    /\ Alive
    /\ \E fails \in LifeFails :
          Return(SetInit(WriteCtx(fails)), "SetInit", <<>>, 0, 0, "")

LifeSetCharacterSet ==
    /\ Alive
    /\ \E n \in CharacterSets, fails \in LifeFails :
          Return(SetCharacterSet(WriteCtx(fails), n), "SetCharacterSet", <<>>,
                 n, 0, "")

LifeSetUnderline ==
    /\ Alive
    /\ \E underline \in BOOLEAN, fails \in LifeFails :
          Return(SetUnderline(WriteCtx(fails), underline), "SetUnderline",
                 <<>>, Bit(underline), 0, "")

LifeSetDoubleHeight ==
    /\ Alive
    /\ \E doubleHeight \in BOOLEAN, fails \in LifeFails :
          Return(SetDoubleHeight(WriteCtx(fails), doubleHeight),
                 "SetDoubleHeight", <<>>, Bit(doubleHeight), 0, "")

LifeSetDoubleWidth ==
    /\ Alive
    /\ \E doubleWidth \in BOOLEAN, fails \in LifeFails :
          Return(SetDoubleWidth(WriteCtx(fails), doubleWidth),
                 "SetDoubleWidth", <<>>, Bit(doubleWidth), 0, "")

LifeSetBold ==
    /\ Alive
    /\ \E bold \in BOOLEAN, fails \in LifeFails :
          Return(SetBold(WriteCtx(fails), bold), "SetBold", <<>>,
                 Bit(bold), 0, "")

LifePrintLine ==
    /\ Alive
    /\ \E fails \in LifeFails :
          Return(PrintLine(WriteCtx(fails)), "PrintLine", <<>>, 0, 0, "")

NextLife ==
    \/ LifeTwoD
    \/ LifePrint
    \/ LifePrintLn
    \/ LifeBarcode
    \/ LifeSize
    \/ LifePrintAreaWidth
    \/ LifeGetErrorStatus
    \/ LifeInit
    \/ LifeEnd
    \/ LifeClose
    \/ LifeCut
    \/ LifeFeed
    \/ LifeFont
    \/ LifeUnderline
    \/ LifeSmooth
    \/ LifeAlign
    \/ LifeWriteBytes
    \/ LifeSetInit
    \/ LifeSetCharacterSet
    \/ LifeSetUnderline
    \/ LifeSetDoubleHeight
    \/ LifeSetDoubleWidth
    \/ LifeSetBold
    \/ LifePrintLine

SpecLife == Init /\ [][NextLife]_vars

(***************************************************************************)
(* Properties.                                                             *)
(***************************************************************************)
\* the write attempts of the call, in order
W == Only(log, "write")

R == Only(log, "read")

AllWritesOk == \A i \in 1..Len(W) : W[i].ok

\* the symbology byte of a 2D operation
SymbologyByte(name) ==
    CASE name = "QR"         -> 49
      [] name = "PDF417"     -> 48
      [] name = "Aztec"      -> 53
      [] name = "DataMatrix" -> 54

\* what a 2D frame is, read off its bytes: the size-set, ECC-set and print
\* sub-frames are fixed frames named by their function byte, the store-data
\* sub-frame ends with the symbology byte, 50 30 and the payload
FrameKind(f, sym, code) ==
    IF Len(f) < 8 \/ SubSeq(f, 1, 3) # <<29, 40, 107>> THEN "other"
    ELSE IF Len(f) = 8 /\ f[6] = sym /\ f[7] = 67 THEN "size"
    ELSE IF Len(f) = 9 /\ f[6] = sym /\ f[7] = 69 /\ f[8] = 48 THEN "ecc"
    ELSE IF Len(f) = 9 /\ f[6] = sym /\ f[7] = 81 /\ f[8] = 48 THEN "print"
    ELSE IF SubSeq(f, Len(f) - Len(code) - 2, Len(f)) = <<sym, 80, 48>> \o code
         THEN "store"
    ELSE "other"

Kinds == [i \in 1..Len(W) |-> FrameKind(W[i].data, SymbologyByte(call.name), call.str)]

\* C1: in a 2D symbology call, a failed write of frame N is the last write
\* attempt of the call, and the call returns an error.
C1_AbortOnWriteError ==
    call.name \in TwoDNames =>
        \A i \in 1..Len(W) : ~W[i].ok => (Len(W) = i /\ ret # "nil")

\* C2: the third frame written by Barcode is 1D 6B <type> <len> <payload>
\* for CODE128, with <len> one byte holding the payload's byte count and no
\* trailing null, and 1D 6B <type> <payload> 00 for the other seven types.
C2_PayloadFrame ==
    (call.name = "Barcode" /\ call.t \in BarcodeTypes /\ Len(W) >= 3) =>
        W[3].data =
            IF call.t = "CODE128"
            THEN <<29, 107>> \o BarcodeTypeString(call.t) \o <<Len(call.str)>>
                 \o call.str
            ELSE <<29, 107>> \o BarcodeTypeString(call.t) \o call.str \o <<0>>

\* C3 as stated: every GetErrorStatus call makes exactly one write, of
\* 10 04 02, and then exactly one read of a 1-byte buffer; a successful read
\* gives the status, a failed read gives status 0 and the read error.
C3_WriteThenReadAlways ==
    call.name = "GetErrorStatus" =>
        /\ Len(log) = 2
        /\ log[1] = Ev("write", <<16, 4, 2>>, log[1].ok)
        /\ log[2].op = "read" /\ Len(log[2].data) = 1
        /\ log[2].ok => (status = log[2].data[1] /\ ret = "nil")
        /\ ~log[2].ok => (status = 0 /\ ret = "ErrRead")

\* C3 amended: every GetErrorStatus call makes exactly one write, of
\* 10 04 02; when that write succeeds exactly one read of a 1-byte buffer
\* follows it, a successful read gives the byte of the buffer as the status
\* and a failed read gives status 0 and the read error; when the write fails
\* no read is made.
C3_WriteThenReadIfWritten ==
    call.name = "GetErrorStatus" =>
        /\ Len(W) = 1
        /\ log[1] = Ev("write", <<16, 4, 2>>, log[1].ok)
        /\ log[1].ok =>
              /\ Len(log) = 2
              /\ log[2].op = "read" /\ Len(log[2].data) = 1
              /\ log[2].ok => (status = log[2].data[1] /\ ret = "nil")
              /\ ~log[2].ok => (status = 0 /\ ret = "ErrRead")
        /\ ~log[1].ok => Len(log) = 1

\* a query whose write and read both succeed, the read storing C8
C3_Witness ==
    /\ call.name = "GetErrorStatus"
    /\ Len(log) = 2 /\ log[1].ok /\ log[2].ok
    /\ status = 200 /\ ret = "nil"

\* C4: when all writes succeed, a 2D call writes size-set, then ECC-set iff
\* it is QR, then store-data, then print, all with its own symbology byte:
\* 4 frames for QR, 3 for PDF417, Aztec and DataMatrix.
C4_FrameOrder ==
    (call.name \in TwoDNames /\ AllWritesOk) =>
        Kinds = IF call.name = "QR"
                THEN <<"size", "ecc", "store", "print">>
                ELSE <<"size", "store", "print">>

C4_Witness ==
    /\ call.name = "QR"
    /\ Len(call.str) = LongLen
    /\ AllWritesOk
    /\ Len(W) = 4

\* C5: the store-data frame of a 2D call is 1D 28 6B lenL lenH <symbology>
\* 50 30 <payload> with lenL = (len+3) mod 256 and lenH = (len+3) div 256,
\* one byte each.
C5_StoreFrame ==
    (call.name \in TwoDNames /\ Len(call.str) + 3 <= 65535) =>
        LET i == IF call.name = "QR" THEN 3 ELSE 2
            n == Len(call.str) + 3
        IN  W[i].data = <<29, 40, 107, n % 256, n \div 256,
                          SymbologyByte(call.name), 80, 48>> \o call.str

\* C6: the size-set frame of a 2D call is 1D 28 6B 03 00 <symbology> 43
\* <size>, where <size> is the requested size when it is in 2..16 and 3
\* otherwise; the call returns no error whatever the size.
C6_SizeFrame ==
    call.name \in TwoDNames =>
        /\ Len(W) >= 1
        /\ W[1].data = <<29, 40, 107, 3, 0, SymbologyByte(call.name), 67,
                         IF call.a >= 2 /\ call.a <= 16 THEN call.a ELSE 3>>
        /\ ret = "nil"

C6_Witness ==
    /\ call.name = "QR"
    /\ call.a = 1
    /\ W[1].data = <<29, 40, 107, 3, 0, 49, 67, 3>>
    /\ ret = "nil"

\* C7: PrintAreaWidth(width) writes exactly 1D 57 nl nh with nl = width mod
\* 256 and nh = width div 256.
C7_WidthFrame ==
    (call.name = "PrintAreaWidth" /\ call.a \in 0..65535) =>
        /\ Len(W) = 1
        /\ W[1].data = <<29, 87, call.a % 256, call.a \div 256>>

\* C8: for width and height in 1..16, Size writes exactly the three bytes
\* 1D 21 b with b = ((width-1)<<4)|(height-1).
C8_SizeByte ==
    (call.name = "Size" /\ call.a \in 1..16 /\ call.b \in 1..16) =>
        /\ Len(W) = 1
        /\ W[1].data = <<29, 33, (call.a - 1) * 16 + (call.b - 1)>>

\* C9: Print of the empty text does nothing to the transport or to the
\* converter and returns no error, whatever the transport would do.
C9_EmptyPrint ==
    (call.name = "Print" /\ call.str = <<>>) => (log = <<>> /\ ret = "nil")

C9_Witness ==
    /\ call.name = "Print"
    /\ call.str = <<>>
    /\ env.fails = 1..MaxCallWrites
    /\ log = <<>>
    /\ ret = "nil"

\* C10: when the converter fails on a non-empty text, Print returns the
\* conversion error and writes nothing; a substitution pass always follows
\* a successful conversion and takes the converter's output.
C10_ConvertError ==
    call.name = "Print" =>
        /\ \A i \in 1..Len(log) :
              (log[i].op = "encode" /\ ~log[i].ok) =>
                  (Len(log) = i /\ W = <<>> /\ ret = "ErrEncode")
        /\ \A i \in 1..Len(log) :
              log[i].op = "replace" =>
                  /\ i > 1
                  /\ log[i - 1].op = "encode" /\ log[i - 1].ok
                  /\ log[i].data = Encode(log[i - 1].data).out
        /\ call.str # <<>> => (Len(log) >= 1 /\ log[1] = Ev("encode", call.str, log[1].ok))

C10_Witness ==
    /\ call.name = "Print"
    /\ call.str = <<65, 228, 184, 173>>
    /\ log = <<Ev("encode", call.str, FALSE)>>
    /\ ret = "ErrEncode"

\* the error a write attempt returns
ErrOf(e) == IF e.ok THEN "nil" ELSE "ErrWrite"

\* C11: PrintLn writes what Print writes (nothing for the empty text, else
\* the converted and substituted text) and then the byte 0A; when Print
\* fails, by conversion or by its write, PrintLn returns that error and
\* writes no 0A.
C11_PrintLnOrder ==
    call.name = "PrintLn" =>
        LET e == Encode(call.str)
        IN  IF call.str = <<>>
            THEN Len(W) = 1 /\ W[1].data = <<10>> /\ ret = ErrOf(W[1])
            ELSE IF ~e.ok
            THEN W = <<>> /\ ret = "ErrEncode"
            ELSE /\ Len(W) >= 1
                 /\ W[1].data = textReplace(e.out)
                 /\ W[1].ok => (/\ Len(W) = 2 /\ W[2].data = <<10>>
                                /\ ret = ErrOf(W[2]))
                 /\ ~W[1].ok => (Len(W) = 1 /\ ret = "ErrWrite")

\* a text line whose text write failed: the error is returned, no 0A
C11_Witness ==
    /\ call.name = "PrintLn"
    /\ call.str = <<195, 169, 226, 130, 172>>
    /\ W = <<Ev("write", <<233, 213>>, FALSE)>>
    /\ ret = "ErrWrite"

\* C12: Feed(n) writes exactly 1B 64 b with the single byte b = n mod 256
\* (b = n for n up to 255).
C12_FeedByte ==
    call.name = "Feed" =>
        (Len(W) = 1 /\ W[1].data = <<27, 100, call.a % 256>>)

\* C13 as stated: Smooth(enabled) writes exactly 1B 62 01 for true and
\* 1B 62 00 for false, Underline(enabled) writes 1B 2D 01 / 1B 2D 00.
C13_SmoothEscB ==
    /\ call.name = "Smooth" => (Len(W) = 1 /\ W[1].data = <<27, 98, call.a>>)
    /\ call.name = "Underline" => (Len(W) = 1 /\ W[1].data = <<27, 45, call.a>>)

\* C13 amended: Smooth(enabled) writes exactly 1D 62 01 for true and
\* 1D 62 00 for false, Underline(enabled) writes 1B 2D 01 / 1B 2D 00; the two
\* frames differ in their command bytes and the payload byte is 1 for true
\* and 0 for false.
C13_SmoothGsB ==
    /\ call.name = "Smooth" =>
          (Len(log) = 1 /\ W[1].data = <<29, 98, call.a>> /\ ret = ErrOf(W[1]))
    /\ call.name = "Underline" =>
          (Len(log) = 1 /\ W[1].data = <<27, 45, call.a>> /\ ret = ErrOf(W[1]))

\* Smooth(true) on a working transport
C13_Witness ==
    /\ call.name = "Smooth" /\ call.a = 1
    /\ log = <<Ev("write", <<29, 98, 1>>, TRUE)>>
    /\ ret = "nil"

\* the transport writes a Barcode call makes after the payload frame when no
\* write fails: the converted text (none for an empty payload, none when
\* the conversion fails) and the newline
BarcodeTail(barcode) ==
    LET e == Encode(barcode)
    IN  IF barcode = <<>> THEN << <<10>> >>
        ELSE IF e.ok THEN <<textReplace(e.out), <<10>>>>
        ELSE <<>>

\* C15: Barcode of a recognized type writes, in this order, 1D 77 04 1D 68 64,
\* 1D 66 00, the payload frame (1D 6B ...), the converted payload text (no
\* write when the payload is empty) and 0A; every write but the last one
\* made has succeeded, a failed write is the last one and its error is
\* returned, and when all writes and the conversion succeed all of them are
\* made and nil is returned.
C15_BarcodeOrder ==
    (call.name = "Barcode" /\ call.t \in BarcodeTypes) =>
        LET exp == <<<<29, 119, 4, 29, 104, 100>>, <<29, 102, 0>>, <<29, 107>>>>
                       \o BarcodeTail(call.str)
            n   == Len(W)
        IN  /\ n >= 1 /\ n <= Len(exp)
            /\ \A i \in 1..n :
                  IF i = 3
                  THEN /\ Len(W[i].data) >= 4
                       /\ SubSeq(W[i].data, 1, 2) = exp[i]
                       /\ W[i].data[Len(W[i].data)] = 0
                  ELSE W[i].data = exp[i]
            /\ \A i \in 1..(n - 1) : W[i].ok
            /\ n < Len(exp) => (~W[n].ok /\ ret = "ErrWrite")
            /\ n = Len(exp) =>
                  ret = (IF ~W[n].ok THEN "ErrWrite"
                         ELSE IF n = 3 THEN "ErrEncode" ELSE "nil")

\* an EAN8 barcode of eight digits, all five writes made
C15_Witness ==
    /\ call.name = "Barcode" /\ call.t = "EAN8" /\ call.str = Digits8
    /\ Len(W) = 5 /\ AllWritesOk
    /\ W[4].data = Digits8 /\ W[5].data = <<10>>
    /\ ret = "nil"

\* C16: Init writes 1B 40 and then 1B 74 28 as two writes; when the first
\* write fails the second is not made and the first write's error is
\* returned, otherwise the result of the second write is returned.
C16_InitOrder ==
    call.name = "Init" =>
        /\ Len(log) >= 1
        /\ log[1] = Ev("write", <<27, 64>>, log[1].ok)
        /\ log[1].ok =>
              /\ Len(log) = 2
              /\ log[2] = Ev("write", <<27, 116, 40>>, log[2].ok)
              /\ ret = ErrOf(log[2])
        /\ ~log[1].ok => (Len(log) = 1 /\ ret = "ErrWrite")

\* an Init whose reset write fails
C16_Witness ==
    /\ call.name = "Init"
    /\ log = <<Ev("write", <<27, 64>>, FALSE)>>
    /\ ret = "ErrWrite"

\* C18: Barcode with a type outside the eight enumerated ones writes no
\* payload frame and no text line (only the two constant frames can have
\* been written, and nothing is converted) and does not return success.
C18_NoDefaultEncoding ==
    (call.name = "Barcode" /\ call.t \notin BarcodeTypes) =>
        /\ ret # "nil"
        /\ Len(log) <= 2
        /\ \A i \in 1..Len(log) :
              /\ log[i].op = "write"
              /\ log[i].data \in {<<29, 119, 4, 29, 104, 100>>, <<29, 102, 0>>}

\* an unrecognized type reaching the switch: both constant frames written,
\* then the panic
C18_Witness ==
    /\ call.name = "Barcode" /\ call.t \notin BarcodeTypes
    /\ call.str = Digits8
    /\ Len(log) = 2 /\ AllWritesOk
    /\ ret = "panic"

\* C19: when the query write of GetErrorStatus fails no read is made and the
\* call returns status 0 with the write error; the call returns success only
\* when its write and its read both succeeded, and status 0 with every error.
C19_NoReadAfterFailedWrite ==
    call.name = "GetErrorStatus" =>
        /\ (Len(W) >= 1 /\ ~W[1].ok) =>
              (R = <<>> /\ status = 0 /\ ret = "ErrWrite")
        /\ ret = "nil" =>
              (Len(W) = 1 /\ W[1].ok /\ Len(R) = 1 /\ R[1].ok)
        /\ ret # "nil" => status = 0

\* a query whose write fails while the device has a byte to send
C19_Witness ==
    /\ call.name = "GetErrorStatus"
    /\ env.rd = [ok |-> TRUE, n |-> 1, byte |-> 200]
    /\ log = <<Ev("write", <<16, 4, 2>>, FALSE)>>
    /\ status = 0 /\ ret = "ErrWrite"

\* C14: once Close has been called, every later call other than Close returns
\* an error and has no write accepted by the transport, and a second Close
\* returns an error.
C14_FailAfterClose ==
    /\ (call.name = "Close" /\ closed >= 2) => ret # "nil"
    /\ (call.name # "Close" /\ closed >= 1) =>
          (ret # "nil" /\ \A i \in 1..Len(W) : ~W[i].ok)

HasBit(r, b) == (r \div b) % 2 = 1

\* C17: the mode register being the payload byte of the last 1C 21 frame
\* written, its double-height bit (08) is set exactly when the last
\* SetDoubleHeight was given true and its double-width bit (04) exactly when
\* the last SetDoubleWidth was given true.
C17_IndependentToggles ==
    reg # NoReg =>
        /\ dh # "unset" => (HasBit(reg, 8) <=> dh = "on")
        /\ dw # "unset" => (HasBit(reg, 4) <=> dw = "on")

\* C20: a call other than Close leaves the number of times the transport's
\* close has been invoked as it was, whether it succeeds or fails, and End
\* makes one transport call, the write of the byte FA.
C20_OnlyCloseCloses ==
    /\ [](call.name = "End" =>
            (Len(log) = 1 /\ log[1] = Ev("write", <<250>>, log[1].ok)))
    /\ [][call'.name # "Close" => closed' = closed]_vars

\* an End after other calls have reached the device, the transport still
\* open
C20_Witness ==
    /\ call.name = "End"
    /\ reg # NoReg
    /\ log = <<Ev("write", <<250>>, TRUE)>>
    /\ ret = "nil"
    /\ closed = 0

====
